---- MODULE Spec2Model ----
(***************************************************************************)
(* Live transcription / translation session of src/App.tsx together with   *)
(* translateText of the translation service (src/unnamed/part_000).        *)
(*                                                                         *)
(* The control thread is the browser's event loop: every action below is   *)
(* one task (an event handler or a promise continuation up to its next     *)
(* await).  React state (useState) is modelled as updated by the task that *)
(* calls the setter; transcriptionSegmentsRef.current (App.tsx:95-96) is   *)
(* the same value, the render that reassigns it following each update well *)
(* within the 1500 ms the debounce timer waits.                            *)
(*                                                                         *)
(* Text is a sequence of one-character strings.  Segment ids, which the    *)
(* code builds as `t-${Date.now()}`, are modelled by the clock reading.    *)
(***************************************************************************)
EXTENDS Integers, Sequences, FiniteSets, TLC

\* ------------------------------------------------------------ constants
CONTEXT_WINDOW_SIZE == 5
TRANSLATION_DEBOUNCE_MS == 1500

\* ------------------------------------------------------------ bounds
\* of Spec: the whole session life cycle, with a short transcript
MaxStarts == 2
MaxChannels == 2
MaxText == 1
MaxLog == 1
MaxTicks == 1
MaxRequests == 1
TicksPerDebounce == 1
\* of SpecPipeline: one start(), with a longer transcript and two debounce
\* periods
PipeStarts == 1
PipeChannels == 1
PipeText == 2
PipeLog == 2
PipeTicks == 4
PipeRequests == 2
PipeTicksPerDebounce == 2
\* of SpecWindow: one start() and a log longer than the context window
WindowStarts == 1
WindowChannels == 1
WindowText == 1
WindowLog == 5
WindowTicks == 1
WindowRequests == 1
WindowTicksPerDebounce == 1
\* of SpecLive: one start() that is never stopped, two finalizations and two
\* debounce periods
LiveText == 1
LiveLog == 2
LiveTicks == 4
LiveRequests == 1
LiveTicksPerDebounce == 2
\* of SpecAudio: the session life cycle with the frames of the worklet
AudioStarts == 2
AudioChannels == 2
AudioFrames == 2
\* of SpecFramer: the worklet's buffer length (the app passes
\* AUDIO_BUFFER_SIZE), the samples fed to it in all and per call of
\* process(), and the sample values: the multiples of 1 / SampleDen from
\* -MaxSample / SampleDen to MaxSample / SampleDen
BufferSize == 2
MaxSamples == 5
MaxBlock == 3
SampleDen == 2
MaxSample == 3


\* the text deltas a transcript message may carry
Deltas == {<<" ">>, <<"a">>}
\* placeholder and error texts of the translation log
Pending == <<"...">>
TranslationError == <<"[Translation Error]">>
\* the strings a remote translation answers with, by position
TrNames == <<"T1", "T2", "T3", "T4", "T5", "T6", "T7", "T8">>

VARIABLES
  \* ---- React state (App.tsx:81-85)
  apiKeyReady, isRecording, transcriptionSegments, translationSegments,
  \* ---- refs (App.tsx:87-102)
  sessionPromiseRef, mediaStreamRef, audioContextRef, workletNodeRef,
  translationTimerRef, isInterruptedRef, latestTranscriptionTextRef,
  animationFrameRef,
  \* ---- the render the mounted closures come from (App.tsx:321-331)
  renderedIsRecording,
  \* ---- environment
  apiKey,      \* process.env.API_KEY is set
  now,         \* Date.now()
  starts,      \* one record per startTranscription() call: its continuation
               \* and the microphone / AudioContext / worklet node it made
  channels,    \* one record per ai.live.connect() call
  timers,      \* pending window.setTimeout callbacks: records [h, due]
  rafs,        \* pending requestAnimationFrame callbacks (handles)
  requests,    \* translateText calls awaiting the remote's answer
  \* ---- the AudioProcessor of the worklet (App.tsx:27-60)
  buffer,      \* this.buffer
  bufferIndex, \* this.bufferIndex
  posted,      \* the frames given to this.port.postMessage, oldest first
  inputs,      \* the samples process() was called with so far, in order
  \* ---- the frames on their way from the worklet to the main thread
  port,        \* the frames posted to a worklet node's port and not yet
               \* handled by port.onmessage, oldest first
  frames       \* the number of frames posted so far

reactVars == <<apiKeyReady, isRecording, transcriptionSegments, translationSegments>>
refVars == <<sessionPromiseRef, mediaStreamRef, audioContextRef, workletNodeRef,
             translationTimerRef, isInterruptedRef, latestTranscriptionTextRef,
             animationFrameRef>>
envVars == <<apiKey, now, starts, channels, timers, rafs, requests>>
framerVars == <<buffer, bufferIndex, posted, inputs>>
audioVars == <<port, frames>>
vars == <<reactVars, refVars, renderedIsRecording, envVars, framerVars, audioVars>>

\* ------------------------------------------------------------ helpers
RECURSIVE TrimStart(_)
TrimStart(s) ==
  IF s # <<>> /\ Head(s) = " " THEN TrimStart(Tail(s)) ELSE s

RECURSIVE TrimEnd(_)
TrimEnd(s) ==
  IF s # <<>> /\ s[Len(s)] = " " THEN TrimEnd(SubSeq(s, 1, Len(s) - 1)) ELSE s

\* a trim of the leading whitespace only
TrimLeadingOnly(s) == TrimStart(s)

\* String.prototype.trim (App.tsx:192)
Trim(s) == TrimEnd(TrimStart(s))

\* Array.prototype.filter(s => s.isFinal)
FilterFinal(segs) == SelectSeq(segs, LAMBDA s : s.isFinal)

\* Array.prototype.slice(-n)
SliceLast(segs, n) ==
  IF Len(segs) <= n THEN segs ELSE SubSeq(segs, Len(segs) - n + 1, Len(segs))

\* a handle no pending callback uses (setTimeout / requestAnimationFrame
\* return a handle distinct from those of the callbacks still pending)
FreshHandle(used) == CHOOSE h \in 1..(Cardinality(used) + 1) : h \notin used

NewStart == [pc |-> "getUserMedia", mic |-> "none", micStops |-> 0,
             ctx |-> "none", ctxCloses |-> 0, node |-> "none", nodeCloses |-> 0]
\* queued: the frames whose send awaits the session promise; sent: the frames
\* given to session.sendRealtimeInput, oldest first
NewChannel == [state |-> "connecting", closeCalls |-> 0,
               queued |-> <<>>, sent |-> <<>>]

Init ==
  /\ apiKeyReady = FALSE
  /\ isRecording = FALSE
  /\ transcriptionSegments = <<>>
  /\ translationSegments = <<>>
  /\ sessionPromiseRef = 0
  /\ mediaStreamRef = 0
  /\ audioContextRef = 0
  /\ workletNodeRef = 0
  /\ translationTimerRef = 0
  /\ isInterruptedRef = FALSE
  /\ latestTranscriptionTextRef = <<>>
  /\ animationFrameRef = 0
  /\ renderedIsRecording = FALSE
  /\ apiKey \in BOOLEAN
  /\ now = 0
  /\ starts = <<>>
  /\ channels = <<>>
  /\ timers = {}
  /\ rafs = {}
  /\ requests = <<>>
  /\ buffer = [j \in 1..BufferSize |-> 0]
  /\ bufferIndex = 0
  /\ posted = <<>>
  /\ inputs = <<>>
  /\ port = <<>>
  /\ frames = 0

\* ------------------------------------------------------------ transcript log
\* a render update that writes the text into the last segment, final or not
RenderOverwritingLast(prev, text, id) ==
  IF prev # <<>>
    THEN [prev EXCEPT ![Len(prev)].text = text]
    ELSE Append(prev, [id |-> id, text |-> text, isFinal |-> FALSE])

\* the updater of the coalesced render callback (App.tsx:173-182)
RenderUpdate(prev, text, id) ==
  IF prev # <<>> /\ ~prev[Len(prev)].isFinal
    THEN [prev EXCEPT ![Len(prev)].text = text]
    ELSE Append(prev, [id |-> id, text |-> text, isFinal |-> FALSE])

\* a finalization that keeps the partial segment in the log
FinalizeKeepingPartial(prev, seg) == Append(prev, seg)

\* the updater of turn-complete on the transcription log (App.tsx:196-200)
FinalizeTranscription(prev, seg) == Append(FilterFinal(prev), seg)

\* the updater of turn-complete on the translation log (App.tsx:202-204)
PlaceholderTranslation(prev, id) ==
  Append(FilterFinal(prev), [id |-> id, text |-> Pending, isFinal |-> FALSE])

\* clearTimeout(h): the pending timers without the one h names
ClearTimeout(ts, h) == {t \in ts : t.h # h}

\* window.setTimeout(processTranslation, TRANSLATION_DEBOUNCE_MS) after the
\* `if (translationTimerRef.current) clearTimeout(...)` (App.tsx:206-209):
\* the pending timers afterwards
RestartTimer(ts, ref) ==
  LET cleared == IF ref # 0 THEN ClearTimeout(ts, ref) ELSE ts
  IN cleared \cup {[h |-> FreshHandle({t.h : t \in cleared}),
                    due |-> now + TRANSLATION_DEBOUNCE_MS]}

\* the handle RestartTimer stores in translationTimerRef
RestartedHandle(ts, ref) ==
  LET cleared == IF ref # 0 THEN ClearTimeout(ts, ref) ELSE ts
  IN FreshHandle({t.h : t \in cleared})

\* ------------------------------------------------------------ translation
\* segmentsToTranslate (App.tsx:114-116)
SegmentsToTranslate(segs) == FilterFinal(SliceLast(segs, CONTEXT_WINDOW_SIZE))

SegTexts(segs) == [i \in 1..Len(segs) |-> segs[i].text]
SegIds(segs) == [i \in 1..Len(segs) |-> segs[i].id]

\* what the remote may answer to a request of n segments: a JSON array of
\* strings of any length, something that is not an array of strings, or a
\* failure of the call / of JSON.parse
Answers(n) ==
  {[kind |-> "array", value |-> [i \in 1..m |-> <<TrNames[i]>>]] : m \in 0..(n + 1)}
    \cup {[kind |-> "notStrings", value |-> <<>>], [kind |-> "throws", value |-> <<>>]}

\* translateText once the credential check has passed (part_000:27-56)
TranslateText(segments, answer) ==
  IF answer.kind = "array"
    THEN answer.value
    ELSE [i \in 1..Len(segments) |-> TranslationError]

\* idToIndexMap.get(id) (App.tsx:129-134): Map.set keeps the last index of
\* an id; 0 stands for undefined
IdToIndex(segs, id) ==
  IF \E j \in 1..Len(segs) : segs[j].id = id
    THEN CHOOSE j \in 1..Len(segs) :
           /\ segs[j].id = id
           /\ \A k \in (j + 1)..Len(segs) : segs[k].id # id
    ELSE 0

\* translations.forEach((translatedText, i) => ...) (App.tsx:132-138),
\* from position i on; the map is built from prev before the loop
RECURSIVE WriteTranslations(_, _, _, _, _)
WriteTranslations(prev, acc, ids, translations, i) ==
  IF i > Len(translations) THEN acc
  ELSE LET index == IF i <= Len(ids) THEN IdToIndex(prev, ids[i]) ELSE 0
           next == IF index # 0
                     THEN [acc EXCEPT ![index].text = translations[i],
                                      ![index].isFinal = TRUE]
                     ELSE acc
       IN WriteTranslations(prev, next, ids, translations, i + 1)

\* the translation log after a response (App.tsx:126-141)
ApplyTranslations(prev, ids, translations) ==
  IF Len(translations) > 0
    THEN WriteTranslations(prev, prev, ids, translations, 1)
    ELSE prev

\* ------------------------------------------------------------ resources
\* `sessionPromiseRef.current?.then(session => session.close())`: an open
\* channel is closed in the microtask that follows; one still connecting is
\* closed in the microtask in which its promise resolves
CloseChannel(ch, c) ==
  IF c = 0 THEN ch
  ELSE [ch EXCEPT ![c].state = IF @ = "open" THEN "closed"
                               ELSE IF @ = "connecting" THEN "doomed" ELSE @,
                  ![c].closeCalls = @ + 1]

\* the releases of stopTranscription (App.tsx:250-256) on the resources the
\* refs name
ReleasedStarts(st, stream, node, ctx) ==
  [k \in DOMAIN st |->
     [st[k] EXCEPT
        !.mic = IF k = stream THEN "stopped" ELSE @,
        !.micStops = IF k = stream THEN @ + 1 ELSE @,
        !.node = IF k = node THEN "closed" ELSE @,
        !.nodeCloses = IF k = node THEN @ + 1 ELSE @,
        !.ctx = IF k = ctx /\ st[k].ctx # "closed" THEN "closed" ELSE @,
        !.ctxCloses = IF k = ctx /\ st[k].ctx # "closed" THEN @ + 1 ELSE @]]

\* establishLiveSession up to its await (App.tsx:147-215): the channels and
\* sessionPromiseRef afterwards, given the worklet node ref at the call
CanEstablish(node) == apiKey /\ node # 0
EstablishedChannels(ch, node) ==
  IF CanEstablish(node) THEN Append(ch, NewChannel) ELSE ch
EstablishedSession(ch, node, session) ==
  IF CanEstablish(node) THEN Len(ch) + 1 ELSE session

\* a stop that leaves the session promise in its ref
StopKeepingSession(st) ==
  /\ isRecording' = FALSE
  /\ rafs' = IF animationFrameRef # 0 THEN rafs \ {animationFrameRef} ELSE rafs
  /\ animationFrameRef' = 0
  /\ timers' = IF translationTimerRef # 0
                 THEN ClearTimeout(timers, translationTimerRef) ELSE timers
  /\ translationTimerRef' = 0
  /\ starts' = ReleasedStarts(st, mediaStreamRef, workletNodeRef, audioContextRef)
  /\ channels' = CloseChannel(channels, sessionPromiseRef)
  /\ mediaStreamRef' = 0
  /\ workletNodeRef' = 0
  /\ audioContextRef' = 0
  /\ UNCHANGED <<framerVars, audioVars>>
  /\ UNCHANGED <<apiKeyReady, transcriptionSegments, translationSegments,
                 sessionPromiseRef, isInterruptedRef,
                 latestTranscriptionTextRef, apiKey, now, requests>>

\* a stop that leaves the debounce timer pending
StopKeepingTimer(st) ==
  /\ isRecording' = FALSE
  /\ rafs' = IF animationFrameRef # 0 THEN rafs \ {animationFrameRef} ELSE rafs
  /\ animationFrameRef' = 0
  /\ starts' = ReleasedStarts(st, mediaStreamRef, workletNodeRef, audioContextRef)
  /\ channels' = CloseChannel(channels, sessionPromiseRef)
  /\ mediaStreamRef' = 0
  /\ sessionPromiseRef' = 0
  /\ workletNodeRef' = 0
  /\ audioContextRef' = 0
  /\ UNCHANGED <<framerVars, audioVars>>
  /\ UNCHANGED <<apiKeyReady, transcriptionSegments, translationSegments,
                 translationTimerRef, isInterruptedRef,
                 latestTranscriptionTextRef, apiKey, now, requests, timers>>

\* stopTranscription (App.tsx:240-262), applied to the continuations st
StopTranscription(st) ==
  /\ isRecording' = FALSE
  /\ rafs' = IF animationFrameRef # 0 THEN rafs \ {animationFrameRef} ELSE rafs
  /\ animationFrameRef' = 0
  /\ timers' = IF translationTimerRef # 0
                 THEN ClearTimeout(timers, translationTimerRef) ELSE timers
  /\ translationTimerRef' = 0
  /\ starts' = ReleasedStarts(st, mediaStreamRef, workletNodeRef, audioContextRef)
  /\ channels' = CloseChannel(channels, sessionPromiseRef)
  /\ mediaStreamRef' = 0
  /\ sessionPromiseRef' = 0
  /\ workletNodeRef' = 0
  /\ audioContextRef' = 0
  /\ UNCHANGED <<framerVars, audioVars>>
  /\ UNCHANGED <<apiKeyReady, transcriptionSegments, translationSegments,
                 isInterruptedRef, latestTranscriptionTextRef,
                 apiKey, now, requests>>

\* ------------------------------------------------------------ key selection
\* checkApiKey (App.tsx:104-111): a key had been selected before
CheckApiKey ==
  /\ ~apiKeyReady /\ apiKey
  /\ apiKeyReady' = TRUE
  /\ UNCHANGED <<framerVars, audioVars>>
  /\ UNCHANGED <<isRecording, transcriptionSegments, translationSegments,
                 refVars, renderedIsRecording, envVars>>

\* handleSelectKey (ApiKeySelector.tsx:22-34): the dialog closed; success is
\* assumed, whether or not a key is now in the environment
HandleSelectKey ==
  /\ ~apiKeyReady
  /\ apiKeyReady' = TRUE
  /\ apiKey' \in {apiKey, TRUE}
  /\ UNCHANGED <<framerVars, audioVars>>
  /\ UNCHANGED <<isRecording, transcriptionSegments, translationSegments,
                 refVars, renderedIsRecording, now, starts, channels, timers,
                 rafs, requests>>

\* ------------------------------------------------------------ start / stop
\* a start that does not check the credential
ClickStartUnchecked ==
  /\ apiKeyReady /\ ~renderedIsRecording
  /\ isRecording' = TRUE
  /\ transcriptionSegments' = <<>>
  /\ translationSegments' = <<>>
  /\ latestTranscriptionTextRef' = <<>>
  /\ starts' = Append(starts, NewStart)
  /\ UNCHANGED <<framerVars, audioVars>>
  /\ UNCHANGED <<apiKeyReady, sessionPromiseRef, mediaStreamRef,
                 audioContextRef, workletNodeRef, translationTimerRef,
                 isInterruptedRef, animationFrameRef,
                 renderedIsRecording, apiKey, now, channels, timers,
                 rafs, requests>>

\* startTranscription up to its first await (App.tsx:264-276), called by
\* handleToggleRecording (App.tsx:321-323) of the render with isRecording false
ClickStart ==
  /\ apiKeyReady /\ ~renderedIsRecording
  /\ IF ~apiKey
       THEN UNCHANGED vars
       ELSE /\ isRecording' = TRUE
            /\ transcriptionSegments' = <<>>
            /\ translationSegments' = <<>>
            /\ latestTranscriptionTextRef' = <<>>
            /\ starts' = Append(starts, NewStart)
            /\ UNCHANGED <<framerVars, audioVars>>
            /\ UNCHANGED <<apiKeyReady, sessionPromiseRef, mediaStreamRef,
                           audioContextRef, workletNodeRef, translationTimerRef,
                           isInterruptedRef, animationFrameRef,
                           renderedIsRecording, apiKey, now, channels, timers,
                           rafs, requests>>

\* stopTranscription called by handleToggleRecording (App.tsx:321-323) of the
\* render with isRecording true
ClickStop ==
  /\ apiKeyReady /\ renderedIsRecording
  /\ StopTranscription(starts)
  /\ UNCHANGED renderedIsRecording

\* the commit of a render with a changed isRecording: the cleanup of the
\* effect of the previous render runs with that render's isRecording
\* (App.tsx:325-331), and the new closures replace the old
Render ==
  /\ renderedIsRecording # isRecording
  /\ IF renderedIsRecording
       THEN StopTranscription(starts)
       ELSE UNCHANGED <<reactVars, refVars, envVars, framerVars, audioVars>>
  /\ renderedIsRecording' = isRecording

\* getUserMedia resolved (App.tsx:276-303): the stream and a new AudioContext
\* are stored, the statechange handler is attached; the continuation awaits
\* resume() if the context starts suspended, addModule otherwise
GetUserMediaResolved(k) ==
  /\ starts[k].pc = "getUserMedia"
  /\ \E s0 \in {"suspended", "running"} :
       starts' = [starts EXCEPT ![k].mic = "live", ![k].ctx = s0,
                                ![k].pc = IF s0 = "suspended" THEN "resume"
                                          ELSE "addModule"]
  /\ mediaStreamRef' = k
  /\ audioContextRef' = k
  /\ isInterruptedRef' = FALSE
  /\ UNCHANGED <<framerVars, audioVars>>
  /\ UNCHANGED <<reactVars, sessionPromiseRef, workletNodeRef,
                 translationTimerRef, latestTranscriptionTextRef,
                 animationFrameRef, renderedIsRecording, apiKey, now, channels,
                 timers, rafs, requests>>

\* an await of startTranscription rejected: getUserMedia (no permission),
\* resume() or addModule (always so for resume() on a closed context); the
\* catch calls stopTranscription (App.tsx:314-317)
StartRejected(k) ==
  /\ starts[k].pc \in {"getUserMedia", "resume", "addModule"}
  /\ StopTranscription([starts EXCEPT ![k].pc = "done"])
  /\ UNCHANGED renderedIsRecording

\* the statechange handler (App.tsx:284-295) for a context that entered
\* 'running': the refs and channels afterwards
ResumedChannels(ch) ==
  IF isInterruptedRef THEN EstablishedChannels(ch, workletNodeRef) ELSE ch
ResumedSession(ch) ==
  IF isInterruptedRef
    THEN EstablishedSession(ch, workletNodeRef, sessionPromiseRef)
    ELSE sessionPromiseRef

\* audioContext.resume() resolved (App.tsx:297-303): the context runs, its
\* statechange handler is called, and addModule is awaited
ResumeResolved(k) ==
  /\ starts[k].pc = "resume"
  /\ starts[k].ctx # "closed"
  /\ starts' = [starts EXCEPT ![k].ctx = "running", ![k].pc = "addModule"]
  /\ channels' = ResumedChannels(channels)
  /\ sessionPromiseRef' = ResumedSession(channels)
  /\ isInterruptedRef' = FALSE
  /\ UNCHANGED <<framerVars, audioVars>>
  /\ UNCHANGED <<reactVars, mediaStreamRef, audioContextRef, workletNodeRef,
                 translationTimerRef, latestTranscriptionTextRef,
                 animationFrameRef, renderedIsRecording, apiKey, now, timers,
                 rafs, requests>>

\* addModule resolved (App.tsx:303-312): the worklet node is made and stored,
\* and establishLiveSession runs up to its await
AddModuleResolved(k) ==
  /\ starts[k].pc = "addModule"
  /\ starts' = [starts EXCEPT ![k].node = "live", ![k].pc = "done"]
  /\ workletNodeRef' = k
  /\ channels' = EstablishedChannels(channels, k)
  /\ sessionPromiseRef' = EstablishedSession(channels, k, sessionPromiseRef)
  /\ UNCHANGED <<framerVars, audioVars>>
  /\ UNCHANGED <<reactVars, mediaStreamRef, audioContextRef,
                 translationTimerRef, isInterruptedRef,
                 latestTranscriptionTextRef, animationFrameRef,
                 renderedIsRecording, apiKey, now, timers, rafs, requests>>

\* ------------------------------------------------------------ audio subsystem
\* an interruption that forgets the channel without closing it
AudioInterruptedKeepingChannel(k) ==
  /\ starts[k].ctx = "running"
  /\ starts[k].pc # "resume"
  /\ starts' = [starts EXCEPT ![k].ctx = "interrupted"]
  /\ isInterruptedRef' = TRUE
  /\ sessionPromiseRef' = 0
  /\ UNCHANGED <<framerVars, audioVars>>
  /\ UNCHANGED <<reactVars, mediaStreamRef, audioContextRef, workletNodeRef,
                 translationTimerRef, latestTranscriptionTextRef,
                 animationFrameRef, renderedIsRecording, apiKey, now, channels,
                 timers, rafs, requests>>

\* statechange to 'interrupted' or 'suspended' (App.tsx:285-289); the handler
\* takes the same branch for both, and "interrupted" stands for either
AudioInterrupted(k) ==
  /\ starts[k].ctx = "running"
  /\ starts[k].pc # "resume"
  /\ starts' = [starts EXCEPT ![k].ctx = "interrupted"]
  /\ isInterruptedRef' = TRUE
  /\ channels' = CloseChannel(channels, sessionPromiseRef)
  /\ sessionPromiseRef' = 0
  /\ UNCHANGED <<framerVars, audioVars>>
  /\ UNCHANGED <<reactVars, mediaStreamRef, audioContextRef, workletNodeRef,
                 translationTimerRef, latestTranscriptionTextRef,
                 animationFrameRef, renderedIsRecording, apiKey, now, timers,
                 rafs, requests>>

\* statechange to 'running' (App.tsx:290-294)
AudioResumed(k) ==
  /\ starts[k].ctx = "interrupted"
  /\ starts' = [starts EXCEPT ![k].ctx = "running"]
  /\ channels' = ResumedChannels(channels)
  /\ sessionPromiseRef' = ResumedSession(channels)
  /\ isInterruptedRef' = FALSE
  /\ UNCHANGED <<framerVars, audioVars>>
  /\ UNCHANGED <<reactVars, mediaStreamRef, audioContextRef, workletNodeRef,
                 translationTimerRef, latestTranscriptionTextRef,
                 animationFrameRef, renderedIsRecording, apiKey, now, timers,
                 rafs, requests>>

\* ------------------------------------------------------------ remote channel
\* ai.live.connect resolved: the session promise is fulfilled; the sends
\* queued on it run in the order they were queued (App.tsx:222-224), and a
\* close queued on it after them runs at once (App.tsx:229-231, 251, 288)
ConnectResolved(c) ==
  /\ channels[c].state \in {"connecting", "doomed"}
  /\ channels' = [channels EXCEPT ![c].state = IF @ = "doomed" THEN "closed"
                                               ELSE "open",
                                  ![c].sent = @ \o channels[c].queued,
                                  ![c].queued = <<>>]
  /\ UNCHANGED <<framerVars, audioVars>>
  /\ UNCHANGED <<reactVars, refVars, renderedIsRecording, apiKey, now, starts,
                 timers, rafs, requests>>

\* ai.live.connect rejected: logged only (App.tsx:232-236); the sends queued
\* on the promise are not made (App.tsx:224-226)
ConnectRejected(c) ==
  /\ channels[c].state \in {"connecting", "doomed"}
  /\ channels' = [channels EXCEPT ![c].state = "failed", ![c].queued = <<>>]
  /\ UNCHANGED <<framerVars, audioVars>>
  /\ UNCHANGED <<reactVars, refVars, renderedIsRecording, apiKey, now, starts,
                 timers, rafs, requests>>

\* ------------------------------------------------------------ transcript events
\* onmessage (App.tsx:166-213) of channel c for a message that carries an
\* inputTranscription (hasText, with text) and / or turnComplete
OnMessage(c, hasText, text, turnComplete) ==
  LET \* App.tsx:167-186
      latest1 == IF hasText THEN latestTranscriptionTextRef \o text
                 ELSE latestTranscriptionTextRef
      schedule == hasText /\ animationFrameRef = 0
      frame1 == IF schedule THEN FreshHandle(rafs) ELSE animationFrameRef
      rafs1 == IF schedule THEN rafs \cup {frame1} ELSE rafs
      \* App.tsx:187-212
      finalizedText == Trim(latest1)
      finalizes == turnComplete /\ finalizedText # <<>>
      finalizedSegment == [id |-> now, text |-> finalizedText, isFinal |-> TRUE]
  IN /\ channels[c].state = "open"
     /\ hasText \/ turnComplete
     /\ latestTranscriptionTextRef' = IF turnComplete THEN <<>> ELSE latest1
     /\ animationFrameRef' = IF turnComplete THEN 0 ELSE frame1
     /\ rafs' = IF turnComplete /\ frame1 # 0 THEN rafs1 \ {frame1} ELSE rafs1
     /\ transcriptionSegments' =
          IF finalizes
            THEN FinalizeTranscription(transcriptionSegments, finalizedSegment)
            ELSE transcriptionSegments
     /\ translationSegments' =
          IF finalizes
            THEN PlaceholderTranslation(translationSegments, finalizedSegment.id)
            ELSE translationSegments
     /\ timers' = IF finalizes THEN RestartTimer(timers, translationTimerRef)
                  ELSE timers
     /\ translationTimerRef' =
          IF finalizes THEN RestartedHandle(timers, translationTimerRef)
          ELSE translationTimerRef
     /\ UNCHANGED <<framerVars, audioVars>>
     /\ UNCHANGED <<apiKeyReady, isRecording, sessionPromiseRef, mediaStreamRef,
                    audioContextRef, workletNodeRef, isInterruptedRef,
                    renderedIsRecording, apiKey, now, starts, channels,
                    requests>>

\* the requestAnimationFrame callback (App.tsx:172-184)
AnimationFrame(h) ==
  /\ h \in rafs
  /\ rafs' = rafs \ {h}
  /\ transcriptionSegments' =
       RenderUpdate(transcriptionSegments, latestTranscriptionTextRef, now)
  /\ animationFrameRef' = 0
  /\ UNCHANGED <<framerVars, audioVars>>
  /\ UNCHANGED <<apiKeyReady, isRecording, translationSegments,
                 sessionPromiseRef, mediaStreamRef, audioContextRef,
                 workletNodeRef, translationTimerRef, isInterruptedRef,
                 latestTranscriptionTextRef, renderedIsRecording, apiKey, now,
                 starts, channels, timers, requests>>

\* ------------------------------------------------------------ translation
\* the requests outstanding once processTranslation has run up to its await
\* (App.tsx:113-124, part_000:8-10): nothing is sent for an empty batch, and
\* without a credential translateText throws before any request is made
Submitted(reqs, segs) ==
  LET batch == SegmentsToTranslate(segs)
  IN IF batch = <<>> \/ ~apiKey THEN reqs
     ELSE Append(reqs, [ids |-> SegIds(batch), texts |-> SegTexts(batch)])

\* the debounce timer fires: processTranslation up to its await
ProcessTranslation(t) ==
  /\ t \in timers
  /\ now >= t.due
  /\ timers' = timers \ {t}
  /\ requests' = Submitted(requests, transcriptionSegments)
  /\ UNCHANGED <<framerVars, audioVars>>
  /\ UNCHANGED <<reactVars, refVars, renderedIsRecording, apiKey, now, starts,
                 channels, rafs>>

\* a response handler that ends the recording when the translation failed
TranslationAnsweredStopping(i, answer) ==
  /\ i \in 1..Len(requests)
  /\ answer \in Answers(Len(requests[i].ids))
  /\ translationSegments' =
       ApplyTranslations(translationSegments, requests[i].ids,
                         TranslateText(requests[i].texts, answer))
  /\ requests' = [j \in 1..(Len(requests) - 1) |->
                    IF j < i THEN requests[j] ELSE requests[j + 1]]
  /\ isRecording' = IF answer.kind = "array" THEN isRecording ELSE FALSE
  /\ UNCHANGED <<framerVars, audioVars>>
  /\ UNCHANGED <<apiKeyReady, transcriptionSegments, refVars,
                 renderedIsRecording, apiKey, now, starts, channels, timers,
                 rafs>>

\* the remote answered request i: translateText returns and processTranslation
\* resumes (part_000:42-56, App.tsx:126-141)
TranslationAnswered(i, answer) ==
  /\ i \in 1..Len(requests)
  /\ answer \in Answers(Len(requests[i].ids))
  /\ translationSegments' =
       ApplyTranslations(translationSegments, requests[i].ids,
                         TranslateText(requests[i].texts, answer))
  /\ requests' = [j \in 1..(Len(requests) - 1) |->
                    IF j < i THEN requests[j] ELSE requests[j + 1]]
  /\ UNCHANGED <<framerVars, audioVars>>
  /\ UNCHANGED <<apiKeyReady, isRecording, transcriptionSegments, refVars,
                 renderedIsRecording, apiKey, now, starts, channels, timers,
                 rafs>>

\* ------------------------------------------------------------ time
Tick(ms) ==
  /\ now' = now + ms
  /\ UNCHANGED <<framerVars, audioVars>>
  /\ UNCHANGED <<reactVars, refVars, renderedIsRecording, apiKey, starts,
                 channels, timers, rafs, requests>>

\* ------------------------------------------------------------ audio framer
\* the sample values process() is fed: Float32 numbers, as numerators over
\* SampleDen
Samples == (0 - MaxSample)..MaxSample

\* the blocks (inputs[0][0]) of one call of process()
RECURSIVE BlocksOfLength(_)
BlocksOfLength(n) ==
  IF n = 0 THEN {<<>>}
  ELSE {Append(b, s) : b \in BlocksOfLength(n - 1), s \in Samples}
Blocks == UNION {BlocksOfLength(n) : n \in 0..MaxBlock}

\* the Number `buffer[j] < 0 ? buffer[j] * 32768 : buffer[j] * 32767`
\* (App.tsx:49) of the sample n / SampleDen, as a numerator over SampleDen
Scaled(n) == IF n < 0 THEN n * 32768 ELSE n * 32767

\* the store of the Number num / den into an Int16Array element: ToInt16
\* drops the fraction (towards zero) and takes the integer modulo 2^16 into
\* -2^15 .. 2^15 - 1
ToInt16(num, den) ==
  LET int == IF num >= 0 THEN num \div den ELSE 0 - ((0 - num) \div den)
  IN ((int + 32768) % 65536) - 32768

\* the Int16Array posted for a full buffer (App.tsx:47-50)
Int16Frame(buf) == [j \in 1..BufferSize |-> ToInt16(Scaled(buf[j]), SampleDen)]

\* a loop that leaves the write cursor at one after a frame
RECURSIVE ProcessSamplesSkipping(_, _, _)
ProcessSamplesSkipping(st, inputData, i) ==
  IF i > Len(inputData) THEN st
  ELSE LET written == [st.buffer EXCEPT ![st.bufferIndex + 1] = inputData[i]]
           index == st.bufferIndex + 1
       IN ProcessSamplesSkipping(
            IF index = BufferSize
              THEN [buffer |-> written, bufferIndex |-> 1,
                    posted |-> Append(st.posted, Int16Frame(written))]
              ELSE [buffer |-> written, bufferIndex |-> index,
                    posted |-> st.posted],
            inputData, i + 1)

\* the loop of process() over inputData from position i on (App.tsx:41-56),
\* on the processor state st
RECURSIVE ProcessSamples(_, _, _)
ProcessSamples(st, inputData, i) ==
  IF i > Len(inputData) THEN st
  ELSE LET written == [st.buffer EXCEPT ![st.bufferIndex + 1] = inputData[i]]
           index == st.bufferIndex + 1
       IN ProcessSamples(
            IF index = BufferSize
              THEN [buffer |-> written, bufferIndex |-> 0,
                    posted |-> Append(st.posted, Int16Frame(written))]
              ELSE [buffer |-> written, bufferIndex |-> index,
                    posted |-> st.posted],
            inputData, i + 1)

\* AudioProcessor.process (App.tsx:35-59) called with the block inputData
Process(inputData) ==
  LET st == ProcessSamples([buffer |-> buffer, bufferIndex |-> bufferIndex,
                            posted |-> posted], inputData, 1)
  IN /\ buffer' = st.buffer
     /\ bufferIndex' = st.bufferIndex
     /\ posted' = st.posted
     /\ inputs' = inputs \o inputData
     /\ UNCHANGED <<reactVars, refVars, renderedIsRecording, envVars, audioVars>>

\* ------------------------------------------------------------ audio frames
\* the AudioProcessor of worklet node k posts a full buffer (App.tsx:51); the
\* frame carries its number in the order of production, its node, and the
\* channel sessionPromiseRef named when it was produced (0: none)
FramePosted(k) ==
  /\ starts[k].node = "live"
  /\ starts[k].ctx = "running"
  /\ port' = Append(port, [id |-> frames + 1, node |-> k,
                           session |-> sessionPromiseRef])
  /\ frames' = frames + 1
  /\ UNCHANGED <<reactVars, refVars, renderedIsRecording, envVars, framerVars>>

\* the oldest frame on the port of node k: its position in port, 0 if none
OldestOf(k) ==
  IF \E i \in 1..Len(port) : port[i].node = k
    THEN CHOOSE i \in 1..Len(port) :
           /\ port[i].node = k
           /\ \A j \in 1..(i - 1) : port[j].node # k
    ELSE 0

\* seq without its i-th entry
Without(seq, i) ==
  [j \in 1..(Len(seq) - 1) |-> IF j < i THEN seq[j] ELSE seq[j + 1]]

\* `sessionPromiseRef.current?.then(session => session.sendRealtimeInput(...))`
\* (App.tsx:222-226) for frame f: nothing without a session promise; on one
\* still pending the send is queued; on a fulfilled one it is made in the
\* microtask that follows, unless the session was closed; on a rejected one
\* the catch logs
SendFrame(ch, c, f) ==
  IF c = 0 THEN ch
  ELSE IF ch[c].state \in {"connecting", "doomed"}
    THEN [ch EXCEPT ![c].queued = Append(@, f)]
  ELSE IF ch[c].state = "open"
    THEN [ch EXCEPT ![c].sent = Append(@, f)]
  ELSE ch

\* port.onmessage (App.tsx:217-227) of worklet node k, whose port is open,
\* for the oldest frame on it; establishLiveSession set the handler in the
\* task that made the node
PortMessage(k) ==
  /\ starts[k].node = "live"
  /\ OldestOf(k) # 0
  /\ channels' = SendFrame(channels, sessionPromiseRef, port[OldestOf(k)])
  /\ port' = Without(port, OldestOf(k))
  /\ UNCHANGED <<reactVars, refVars, renderedIsRecording, apiKey, now, starts,
                 timers, rafs, requests, framerVars, frames>>

\* ------------------------------------------------------------ specifications
\* the render that follows a change of isRecording is committed before the
\* next task runs
Committed == renderedIsRecording = isRecording

\* what the next message would leave in the accumulator
Heard(hasText, text) ==
  IF hasText THEN latestTranscriptionTextRef \o text
  ELSE latestTranscriptionTextRef

\* the next-state relation within bounds: at most maxStarts calls of start(),
\* maxChannels channels, maxText characters per utterance, maxLog finalized
\* segments per log, maxTicks clock ticks of which perDebounce make a debounce
\* period, maxRequests requests outstanding
Steps(maxStarts, maxChannels, maxText, maxLog, maxTicks, perDebounce, maxRequests) ==
  \/ CheckApiKey
  \/ HandleSelectKey
  \/ Committed /\ (apiKey => Len(starts) < maxStarts) /\ ClickStart
  \/ Committed /\ ClickStop
  \/ Render
  \/ \E k \in 1..Len(starts) : Committed /\ GetUserMediaResolved(k)
  \/ \E k \in 1..Len(starts) : Committed /\ StartRejected(k)
  \/ \E k \in 1..Len(starts) :
       Committed /\ Len(channels) < maxChannels /\ ResumeResolved(k)
  \/ \E k \in 1..Len(starts) :
       Committed /\ Len(channels) < maxChannels /\ AddModuleResolved(k)
  \/ \E k \in 1..Len(starts) : Committed /\ AudioInterrupted(k)
  \/ \E k \in 1..Len(starts) :
       Committed /\ Len(channels) < maxChannels /\ AudioResumed(k)
  \/ \E c \in 1..Len(channels) : Committed /\ ConnectResolved(c)
  \/ \E c \in 1..Len(channels) : Committed /\ ConnectRejected(c)
  \/ \E c \in 1..Len(channels), hasText \in BOOLEAN, text \in Deltas,
        turnComplete \in BOOLEAN :
       /\ Committed
       /\ Len(Heard(hasText, text)) <= maxText
       /\ Len(FilterFinal(transcriptionSegments)) < maxLog
            \/ ~turnComplete \/ Trim(Heard(hasText, text)) = <<>>
       /\ OnMessage(c, hasText, text, turnComplete)
  \/ \E h \in rafs : Committed /\ AnimationFrame(h)
  \/ \E t \in timers :
       Committed /\ Len(requests) < maxRequests /\ ProcessTranslation(t)
  \/ \E i \in 1..Len(requests) :
       \E answer \in Answers(Len(requests[i].ids)) :
         Committed /\ TranslationAnswered(i, answer)
  \/ LET ms == TRANSLATION_DEBOUNCE_MS \div perDebounce
     IN Committed /\ now + ms <= maxTicks * ms /\ Tick(ms)

Next ==
  Steps(MaxStarts, MaxChannels, MaxText, MaxLog, MaxTicks, TicksPerDebounce,
        MaxRequests)

Spec == Init /\ [][Next]_vars

PipelineNext ==
  Steps(PipeStarts, PipeChannels, PipeText, PipeLog, PipeTicks,
        PipeTicksPerDebounce, PipeRequests)

SpecPipeline == Init /\ [][PipelineNext]_vars

WindowNext ==
  Steps(WindowStarts, WindowChannels, WindowText, WindowLog, WindowTicks,
        WindowTicksPerDebounce, WindowRequests)

SpecWindow == Init /\ [][WindowNext]_vars

\* a well-formed answer to a request of n segments: n strings
WellFormed(n) == [kind |-> "array", value |-> [i \in 1..n |-> <<TrNames[i]>>]]

\* the clock tick of SpecLive
LiveTick == TRANSLATION_DEBOUNCE_MS \div LiveTicksPerDebounce

\* a session that is started once and never stopped or interrupted, whose
\* channel opens and whose translation requests are all answered well-formed;
\* a turn-complete arrives only while the clock's bound leaves its debounce
\* period room to pass
LiveNext ==
  \/ CheckApiKey
  \/ HandleSelectKey
  \/ Committed /\ apiKey /\ starts = <<>> /\ ClickStart
  \/ Render
  \/ \E k \in 1..Len(starts) : Committed /\ GetUserMediaResolved(k)
  \/ \E k \in 1..Len(starts) : Committed /\ ResumeResolved(k)
  \/ \E k \in 1..Len(starts) : Committed /\ AddModuleResolved(k)
  \/ \E c \in 1..Len(channels) : Committed /\ ConnectResolved(c)
  \/ \E c \in 1..Len(channels), hasText \in BOOLEAN, text \in Deltas,
        turnComplete \in BOOLEAN :
       /\ Committed
       /\ Len(Heard(hasText, text)) <= LiveText
       /\ turnComplete /\ Trim(Heard(hasText, text)) # <<>>
            => /\ Len(FilterFinal(transcriptionSegments)) < LiveLog
               /\ now + TRANSLATION_DEBOUNCE_MS <= LiveTicks * LiveTick
       /\ OnMessage(c, hasText, text, turnComplete)
  \/ \E h \in rafs : Committed /\ AnimationFrame(h)
  \/ \E t \in timers :
       Committed /\ Len(requests) < LiveRequests /\ ProcessTranslation(t)
  \/ \E i \in 1..Len(requests) :
       Committed /\ TranslationAnswered(i, WellFormed(Len(requests[i].ids)))
  \/ Committed /\ now + LiveTick <= LiveTicks * LiveTick /\ Tick(LiveTick)

\* the event loop runs every task that is ready: a render is committed, a
\* render callback and a timer that is due run, the clock advances, and (the
\* remote being well-behaved) every request is answered
LiveFairness ==
  /\ WF_vars(Render)
  /\ WF_vars(\E h \in rafs : Committed /\ AnimationFrame(h))
  /\ WF_vars(\E t \in timers :
               Committed /\ Len(requests) < LiveRequests /\ ProcessTranslation(t))
  /\ WF_vars(\E i \in 1..Len(requests) :
               Committed /\ TranslationAnswered(i, WellFormed(Len(requests[i].ids))))
  /\ WF_vars(Committed /\ now + LiveTick <= LiveTicks * LiveTick /\ Tick(LiveTick))

SpecLive == Init /\ [][LiveNext]_vars /\ LiveFairness

\* the session life cycle with the worklet posting frames and port.onmessage
\* handling them, without transcript messages
AudioNext ==
  \/ CheckApiKey
  \/ HandleSelectKey
  \/ Committed /\ (apiKey => Len(starts) < AudioStarts) /\ ClickStart
  \/ Committed /\ ClickStop
  \/ Render
  \/ \E k \in 1..Len(starts) : Committed /\ GetUserMediaResolved(k)
  \/ \E k \in 1..Len(starts) : Committed /\ StartRejected(k)
  \/ \E k \in 1..Len(starts) :
       Committed /\ Len(channels) < AudioChannels /\ ResumeResolved(k)
  \/ \E k \in 1..Len(starts) :
       Committed /\ Len(channels) < AudioChannels /\ AddModuleResolved(k)
  \/ \E k \in 1..Len(starts) : Committed /\ AudioInterrupted(k)
  \/ \E k \in 1..Len(starts) :
       Committed /\ Len(channels) < AudioChannels /\ AudioResumed(k)
  \/ \E c \in 1..Len(channels) : Committed /\ ConnectResolved(c)
  \/ \E c \in 1..Len(channels) : Committed /\ ConnectRejected(c)
  \/ \E k \in 1..Len(starts) : frames < AudioFrames /\ FramePosted(k)
  \/ \E k \in 1..Len(starts) : Committed /\ PortMessage(k)

SpecAudio == Init /\ [][AudioNext]_vars

\* the worklet alone: process() is called with block after block
FramerNext ==
  \E inputData \in Blocks :
    /\ Len(inputs) + Len(inputData) <= MaxSamples
    /\ Process(inputData)

SpecFramer == Init /\ [][FramerNext]_vars

\* ============================================================ claims
NonFinal(segs) == {i \in 1..Len(segs) : ~segs[i].isFinal}

\* C1: in every reachable state the transcription log holds at most one
\* Segment that is not final, and such a Segment is the last entry of the log.
C1_OneNonFinalAtTail ==
  /\ Cardinality(NonFinal(transcriptionSegments)) <= 1
  /\ \A i \in NonFinal(transcriptionSegments) : i = Len(transcriptionSegments)

\* a partial segment is shown behind a finalized one
C1_Witness ==
  /\ Len(transcriptionSegments) >= 2
  /\ transcriptionSegments[1].isFinal
  /\ ~transcriptionSegments[Len(transcriptionSegments)].isFinal

\* s without its leading and trailing spaces, by position: the part of s from
\* its first to its last character that is not a space
Unpadded(s) ==
  LET solid == {i \in 1..Len(s) : s[i] # " "}
  IN IF solid = {} THEN <<>>
     ELSE SubSeq(s, CHOOSE i \in solid : \A j \in solid : i <= j,
                    CHOOSE i \in solid : \A j \in solid : i >= j)

\* C2: a text-append adds its delta to the accumulator and a render callback
\* leaves the accumulator alone, so that at a turn-complete the accumulator
\* is the concatenation of the deltas since the previous one; the
\* turn-complete then appends exactly one finalized Segment, whose text is
\* that concatenation without its leading and trailing whitespace, iff this
\* is not empty, and otherwise leaves the log as it is; the accumulator is
\* empty afterwards.
C2_TurnComplete ==
  [][/\ \A c \in 1..Len(channels), hasText \in BOOLEAN, text \in Deltas :
          /\ OnMessage(c, hasText, text, FALSE) =>
               latestTranscriptionTextRef' = latestTranscriptionTextRef \o text
          /\ OnMessage(c, hasText, text, TRUE) =>
               LET all == Heard(hasText, text)
                   n == Len(FilterFinal(transcriptionSegments))
               IN /\ latestTranscriptionTextRef' = <<>>
                  /\ IF Unpadded(all) # <<>>
                       THEN /\ Len(transcriptionSegments') = n + 1
                            /\ SubSeq(transcriptionSegments', 1, n)
                                 = FilterFinal(transcriptionSegments)
                            /\ transcriptionSegments'[n + 1].isFinal
                            /\ transcriptionSegments'[n + 1].text = Unpadded(all)
                       ELSE transcriptionSegments' = transcriptionSegments
     /\ \A h \in rafs :
          AnimationFrame(h) => UNCHANGED latestTranscriptionTextRef
    ]_vars

\* a finalized Segment made of two deltas, with the accumulator reset
C2_Witness ==
  /\ latestTranscriptionTextRef = <<>>
  /\ \E i \in 1..Len(transcriptionSegments) :
       /\ transcriptionSegments[i].isFinal
       /\ transcriptionSegments[i].text = <<"a", "a">>

\* C3: at most one translation batch request is outstanding in every
\* reachable state.
C3_SingleFlight == Len(requests) <= 1

Min(a, b) == IF a < b THEN a ELSE b

\* C4: at most one debounce timer is pending; when it fires, the debounce
\* period has passed since the last finalization, and exactly one request is
\* issued, which holds the min(CONTEXT_WINDOW_SIZE, number of finalized
\* segments) most recent finalized segments.
C4_Debounce ==
  /\ [](Cardinality(timers) <= 1)
  /\ [][\A t \in timers :
          LET fin == FilterFinal(transcriptionSegments)
          IN (ProcessTranslation(t) /\ fin # <<>>)
             => /\ now >= fin[Len(fin)].id + TRANSLATION_DEBOUNCE_MS
                /\ Len(requests') = Len(requests) + 1
                /\ requests'[Len(requests')].ids
                     = SegIds(SliceLast(fin, Min(CONTEXT_WINDOW_SIZE, Len(fin))))
       ]_vars

Range(f) == {f[i] : i \in DOMAIN f}

\* C5: when a response of the length of its request is applied, every
\* TranslationSegment whose id is that of the i-th requested segment has the
\* i-th translated text and is final afterwards, and the entries with other
\* ids are as before.
C5_Reconciled ==
  [][\A i \in 1..Len(requests) : \A answer \in Answers(Len(requests[i].ids)) :
       (/\ answer.kind = "array"
        /\ Len(answer.value) = Len(requests[i].ids)
        /\ TranslationAnswered(i, answer))
       => /\ Len(translationSegments') = Len(translationSegments)
          /\ \A k \in 1..Len(translationSegments) :
               /\ translationSegments'[k].id = translationSegments[k].id
               /\ \A j \in 1..Len(requests[i].ids) :
                    translationSegments[k].id = requests[i].ids[j]
                    => /\ translationSegments'[k].text = answer.value[j]
                       /\ translationSegments'[k].isFinal
               /\ translationSegments[k].id \notin Range(requests[i].ids)
                    => translationSegments'[k] = translationSegments[k]
    ]_vars

\* C6: when a request fails or its answer is malformed (not an array of
\* strings, or an array of another length than the request), every requested
\* id's TranslationSegment has the error placeholder text afterwards.
C6_ErrorPlaceholder ==
  [][\A i \in 1..Len(requests) : \A answer \in Answers(Len(requests[i].ids)) :
       (/\ answer.kind # "array" \/ Len(answer.value) # Len(requests[i].ids)
        /\ TranslationAnswered(i, answer))
       => \A k \in 1..Len(translationSegments') :
            translationSegments'[k].id \in Range(requests[i].ids)
            => translationSegments'[k].text = TranslationError
    ]_vars

OpenChannels == {c \in 1..Len(channels) : channels[c].state = "open"}

\* C7: at most one remote channel is open in every reachable state.
C7_OneChannelOpen == Cardinality(OpenChannels) <= 1

\* nothing is held: no live microphone, no worklet node, no AudioContext that
\* is not closed, and no channel that is open or will open and stay open
Released ==
  /\ \A k \in 1..Len(starts) :
       /\ starts[k].mic # "live"
       /\ starts[k].node # "live"
       /\ starts[k].ctx \in {"none", "closed"}
  /\ \A c \in 1..Len(channels) : channels[c].state \notin {"connecting", "open"}

\* C8: from stop() until the next start() the session is Closed: it is not
\* recording and holds no channel, microphone or audio subsystem, also once
\* the continuations of an earlier start() have run.
C8_ClosedAfterStop == ~isRecording => Released

\* C9: the stop() that the cleanup of the effect calls right after a stop()
\* (two calls in succession) changes nothing: no state, and no further close
\* of the channel, stop of the microphone or release of the audio subsystem.
C9_StopIdempotent ==
  [][(renderedIsRecording /\ Render)
       => UNCHANGED <<reactVars, refVars, envVars>>]_vars

\* the cleanup of the effect has called stop() after the stop() of a session
\* with a microphone, an AudioContext and a channel: each was released once
C9_Witness ==
  /\ ~isRecording /\ ~renderedIsRecording
  /\ \E k \in 1..Len(starts) :
       /\ starts[k].micStops = 1
       /\ starts[k].ctxCloses = 1
       /\ starts[k].nodeCloses = 1
  /\ \E c \in 1..Len(channels) : channels[c].closeCalls = 1

\* C10: once stop() has returned and the session is Closed, the answer to a
\* translation request and a transcript message change neither log nor the
\* accumulator and schedule no timer and no render callback.
C10_LateCompletionsDiscarded ==
  [][(/\ ~isRecording /\ Released
      /\ \/ \E i \in 1..Len(requests) :
              \E answer \in Answers(Len(requests[i].ids)) :
                TranslationAnswered(i, answer)
         \/ \E c \in 1..Len(channels), hasText \in BOOLEAN, text \in Deltas,
               turnComplete \in BOOLEAN :
              OnMessage(c, hasText, text, turnComplete))
       => UNCHANGED <<transcriptionSegments, translationSegments,
                      latestTranscriptionTextRef, timers, rafs>>]_vars

\* the microphone, worklet node and AudioContext of every start() in st are
\* released
LocalReleased(st) ==
  \A k \in 1..Len(st) :
    /\ st[k].mic # "live"
    /\ st[k].node # "live"
    /\ st[k].ctx \in {"none", "closed"}

\* C11: when the connect of the channel the recording session waits for
\* fails, the session is Closed afterwards: it is not recording, and its
\* microphone, worklet node and AudioContext are released.
C11_ConnectFailureCloses ==
  [][\A c \in 1..Len(channels) :
       (isRecording /\ sessionPromiseRef = c /\ ConnectRejected(c))
       => ~isRecording' /\ LocalReleased(starts')]_vars

\* C12: a start() without a credential creates no session: while there is no
\* credential the session is not recording, no microphone was asked for and
\* no channel opened, and the call itself leaves the recording state, both
\* logs, the accumulator, the resources and the channels as they are.
C12_NoCredentialNoSession ==
  /\ [](~apiKey => /\ ~isRecording
                   /\ starts = <<>> /\ channels = <<>>
                   /\ mediaStreamRef = 0 /\ sessionPromiseRef = 0)
  /\ [][(~apiKey /\ ClickStart)
          => UNCHANGED <<isRecording, transcriptionSegments,
                         translationSegments, latestTranscriptionTextRef,
                         starts, channels, refVars>>]_vars

\* start() can be called without a credential: the key dialog was closed
\* without a key in the environment
C12_Witness ==
  /\ apiKeyReady /\ ~apiKey /\ ~renderedIsRecording
  /\ ~isRecording /\ starts = <<>>

\* the ids of the entries of a log
Ids(segs) == {segs[i].id : i \in 1..Len(segs)}

\* C13: the translation log is append-only by id: every step other than a
\* start() keeps an entry for each id that has one, so that a finalization
\* does not remove the entry of an earlier segment that still awaits its
\* translation.
C13_AppendOnlyById ==
  [][~ClickStart => Ids(translationSegments) \subseteq Ids(translationSegments')]_vars

\* no two entries of a log share an id
DistinctIds(segs) ==
  \A i, j \in 1..Len(segs) : segs[i].id = segs[j].id => i = j

\* C14: in every reachable state no two entries of the transcription log
\* share an id, and no two entries of the translation log share an id.
C14_IdsNeverReused ==
  /\ DistinctIds(transcriptionSegments)
  /\ DistinctIds(translationSegments)

\* n / d rounded to the nearest integer, halves upwards (Math.round)
Round(n, d) == (2 * n + d) \div (2 * d)

\* x limited to the range of a 16-bit signed integer
Clamp16(x) == IF x < -32768 THEN -32768 ELSE IF x > 32767 THEN 32767 ELSE x

\* C15: every emitted value is the rounded product of its input sample s with
\* 32768 (s < 0) or 32767 (otherwise), limited to -32768 .. 32767.
C15_Quantization ==
  \A f \in 1..Len(posted) : \A j \in 1..BufferSize :
    LET s == inputs[(f - 1) * BufferSize + j]
    IN posted[f][j] = Clamp16(Round(Scaled(s), SampleDen))

\* C16: when the debounce timer fires, the batch submitted is the last
\* min(CONTEXT_WINDOW_SIZE, F) of the F finalized segments of the
\* transcription log, oldest first, ids and texts in the same positions,
\* whether or not a segment that is not final is at the tail of the log.
C16_ContextWindow ==
  [][\A t \in timers :
       LET fin == FilterFinal(transcriptionSegments)
           batch == SliceLast(fin, Min(CONTEXT_WINDOW_SIZE, Len(fin)))
       IN (ProcessTranslation(t) /\ fin # <<>>)
          => requests' = Append(requests, [ids |-> SegIds(batch),
                                           texts |-> SegTexts(batch)])
    ]_vars

\* the clock readings of SpecLive, which are the ids a segment may get
LiveIds == {k * LiveTick : k \in 0..LiveTicks}

\* the transcription log holds a finalized Segment of this id
Finalized(id) ==
  \E i \in 1..Len(transcriptionSegments) :
    transcriptionSegments[i].id = id /\ transcriptionSegments[i].isFinal

\* the translation log holds a final TranslationSegment of this id
Translated(id) ==
  \E i \in 1..Len(translationSegments) :
    translationSegments[i].id = id /\ translationSegments[i].isFinal

\* C17: in a session that is not stopped and whose translation requests are
\* all answered well-formed, every finalized transcription Segment eventually
\* has a final TranslationSegment of its id.
C17_EventuallyTranslated ==
  \A id \in LiveIds : Finalized(id) ~> Translated(id)

\* what an interruption and a resume leave alone: the recording state, both
\* logs, the accumulator, the pending timer and render callback, the requests
\* in flight, and the microphone and worklet node with the refs that own them
InterruptionFrame ==
  /\ UNCHANGED <<isRecording, transcriptionSegments, translationSegments,
                 latestTranscriptionTextRef, timers, translationTimerRef,
                 rafs, animationFrameRef, requests, mediaStreamRef,
                 workletNodeRef, audioContextRef>>
  /\ Len(starts') = Len(starts)
  /\ \A j \in 1..Len(starts) :
       /\ starts'[j].mic = starts[j].mic
       /\ starts'[j].node = starts[j].node

\* C18: an interruption of the audio subsystem closes the current channel of
\* an Active session (at once, or as soon as it opens), and the resume of an
\* Interrupted session opens a fresh channel and leaves the older ones as
\* they are; both leave the logs, the accumulator, the pending debounce timer
\* and the ownership of the microphone and the worklet node unchanged.
C18_InterruptionFrame ==
  [][\A k \in 1..Len(starts) :
       /\ AudioInterrupted(k)
            => /\ InterruptionFrame
               /\ sessionPromiseRef' = 0
               /\ Len(channels') = Len(channels)
               /\ \A c \in 1..Len(channels) :
                    IF c = sessionPromiseRef
                      THEN channels'[c].state \notin {"connecting", "open"}
                      ELSE channels'[c] = channels[c]
       /\ AudioResumed(k)
            => /\ InterruptionFrame
               /\ (isInterruptedRef /\ workletNodeRef # 0)
                    => /\ Len(channels') = Len(channels) + 1
                       /\ SubSeq(channels', 1, Len(channels)) = channels
                       /\ channels'[Len(channels')].state = "connecting"
                       /\ sessionPromiseRef' = Len(channels')
    ]_vars

\* a session was interrupted and resumed with a finalized segment in the log
\* and its debounce timer pending: the first channel is closed, a second is
\* the current one, and the microphone and the worklet node are live
C18_Witness ==
  /\ isRecording /\ ~isInterruptedRef
  /\ Len(channels) = 2 /\ sessionPromiseRef = 2
  /\ channels[1].state = "closed" /\ channels[1].closeCalls = 1
  /\ timers # {} /\ transcriptionSegments # <<>>
  /\ Len(starts) = 1
  /\ starts[1].mic = "live" /\ starts[1].node = "live"

\* the entries of a are entries of b, in the same order
RECURSIVE IsSubseq(_, _)
IsSubseq(a, b) ==
  IF a = <<>> THEN TRUE
  ELSE IF b = <<>> THEN FALSE
  ELSE IF Head(a) = Head(b) THEN IsSubseq(Tail(a), Tail(b))
  ELSE IsSubseq(a, Tail(b))

\* C19: every step other than a start() keeps each finalized Segment of the
\* transcription log in the log, with its id, its text and isFinal = TRUE,
\* and keeps the finalized segments in their order.
C19_FinalizationOneWay ==
  [][~ClickStart => IsSubseq(FilterFinal(transcriptionSegments),
                             FilterFinal(transcriptionSegments'))]_vars

\* two finalized segments with a partial one behind them, and a translation
\* response applied: render callbacks, a later turn-complete and a response
\* have acted on a log that held a finalized Segment
C19_Witness ==
  /\ Len(transcriptionSegments) = 3
  /\ transcriptionSegments[1].isFinal /\ transcriptionSegments[2].isFinal
  /\ transcriptionSegments[1].id # transcriptionSegments[2].id
  /\ ~transcriptionSegments[3].isFinal
  /\ \E i \in 1..Len(translationSegments) : translationSegments[i].isFinal

\* a step in which stopTranscription runs: the Stop button, the catch of
\* startTranscription, or the cleanup of the effect
Stops ==
  \/ ClickStop
  \/ \E k \in 1..Len(starts) : StartRejected(k)
  \/ renderedIsRecording /\ Render

\* C20: stop() cancels the debounce timer and the render callback that are
\* pending when it is called: no timer and no render callback scheduled
\* before a stop() is pending after it, so that none of them fires, issues a
\* translation request or updates the transcription log afterwards.
C20_StopCancelsPending ==
  [][Stops => timers' = {} /\ rafs' = {}]_vars

\* stop() was called with the debounce timer of a finalized segment and the
\* render callback of a later text-append pending: the clock has not reached
\* the timer's due time and the translation is pending, the accumulator holds
\* text that no partial segment shows, and neither callback is pending
C20_Witness ==
  /\ ~isRecording /\ now = 0
  /\ timers = {} /\ rafs = {} /\ requests = <<>>
  /\ \E i \in 1..Len(translationSegments) : ~translationSegments[i].isFinal
  /\ latestTranscriptionTextRef # <<>>
  /\ transcriptionSegments # <<>> /\ NonFinal(transcriptionSegments) = {}

\* an answer that is a failure of the call or is malformed for a request of n
\* segments
Malformed(answer, n) ==
  answer.kind # "array" \/ Len(answer.value) # n

\* C21: the answer to a translation request that failed or is malformed
\* leaves the session as it is: the recording state, the channels and the
\* ref of the current one, the microphone, worklet node and AudioContext, the
\* transcription log, the accumulator and the pending timer and render
\* callback are unchanged, so that the messages of the channel are handled
\* and the next finalization is scheduled for translation as before.
C21_TranslationFailureKeepsSession ==
  [][\A i \in 1..Len(requests) : \A answer \in Answers(Len(requests[i].ids)) :
       (Malformed(answer, Len(requests[i].ids)) /\ TranslationAnswered(i, answer))
       => UNCHANGED <<isRecording, channels, starts, refVars,
                      transcriptionSegments, timers, rafs>>
    ]_vars

\* a translation failed in a running session, and a finalization after it
\* was taken into both logs and has its debounce timer pending
C21_Witness ==
  /\ isRecording /\ sessionPromiseRef # 0
  /\ channels[sessionPromiseRef].state = "open"
  /\ Len(translationSegments) = 2 /\ Len(transcriptionSegments) = 2
  /\ translationSegments[1].text = TranslationError
  /\ ~translationSegments[2].isFinal
  /\ translationSegments[2].id = transcriptionSegments[2].id
  /\ \E t \in timers : t.h = translationTimerRef

\* the frames of seq that worklet node k produced
FramesOf(seq, k) == SelectSeq(seq, LAMBDA f : f.node = k)

\* the frames of seq are in the order of their production, each once
InProductionOrder(seq) ==
  \A i, j \in 1..Len(seq) : i < j => seq[i].id < seq[j].id

\* C22: on every channel the frames of a worklet node are sent, and wait to
\* be sent while the channel is connecting, in the order the node produced
\* them, each at most once on all channels together; and a frame produced
\* while there was no channel is sent on no channel, whenever opened.
C22_FramesInOrder ==
  /\ \A c \in 1..Len(channels) : \A k \in 1..Len(starts) :
       InProductionOrder(FramesOf(channels[c].sent \o channels[c].queued, k))
  /\ \A c, d \in 1..Len(channels) :
       \A i \in 1..Len(channels[c].sent) : \A j \in 1..Len(channels[d].sent) :
         channels[c].sent[i].id = channels[d].sent[j].id => c = d /\ i = j
  /\ \A c \in 1..Len(channels) : \A i \in 1..Len(channels[c].sent) :
       channels[c].sent[i].session # 0

\* C23: whatever blocks process() was called with, a frame was posted each
\* time the write cursor reached BufferSize and the cursor was reset to zero:
\* the cursor is in 0 .. BufferSize - 1 and counts the samples since the last
\* frame, the number of frames is that of the full buffers in the input, every
\* frame has BufferSize values, the j-th value of the f-th frame is the
\* 16-bit value of the input sample (f - 1) * BufferSize + j, and the samples
\* since the last frame are in the buffer in their order.
C23_Framing ==
  /\ bufferIndex \in 0..(BufferSize - 1)
  /\ bufferIndex = Len(inputs) % BufferSize
  /\ Len(posted) = Len(inputs) \div BufferSize
  /\ \A f \in 1..Len(posted) :
       /\ DOMAIN posted[f] = 1..BufferSize
       /\ \A j \in 1..BufferSize :
            posted[f][j]
              = ToInt16(Scaled(inputs[(f - 1) * BufferSize + j]), SampleDen)
  /\ \A j \in 1..bufferIndex :
       buffer[j] = inputs[Len(posted) * BufferSize + j]

\* two frames of different samples were posted and a further sample is in
\* the buffer
C23_Witness ==
  /\ Len(posted) = 2 /\ bufferIndex = 1
  /\ posted[1] # posted[2]
  /\ posted[1][1] # posted[1][2]
  /\ Len(inputs) = 2 * BufferSize + 1
====
